---- MODULE Spec2Model ----
(***************************************************************************)
(* The member card renderer, initMemberComponent, in its two variants:     *)
(*   "visibility"  src/src/scripts/memberComponent.ts (imported by index)  *)
(*   "plain"       src/unnamed/part_001                                    *)
(* One invocation is an async function with two suspension points, the     *)
(* await of fetch and the await of response.json(); everything between     *)
(* two awaits runs as one step of the single-threaded event loop.          *)
(***************************************************************************)
EXTENDS Integers, Sequences, FiniteSets, TLC

\* ---------------------------------------------------------------- bounds
MaxInvocations == 2
MaxInstant == 1

Invocations == 1..MaxInvocations
Instants == 0..MaxInstant

\* ------------------------------------------------------------ JS values
NullId == "<null>"
Absent == "<undefined>"
NaN == -1
NoError == "none"

\* The values params.get("id") yields: null, the empty string, or an id.
MemberIds == {NullId, "", "172", "4514"}

\* !memberId
IdMissing(id) == id = NullId \/ id = ""

Variants == {"visibility", "plain"}

Children == {"image", "party", "name", "constituency", "status"}

\* The templates of the host page: which of the five children the Card has.
Templates == {Children, {}}

\* ---------------------------------------------------- the remote record
HexNoHash == <<"f", "f", "0", "0", "0", "0">>
HexHash == <<"#", "0", "0", "f", "f", "0", "0">>

\* latestParty.backgroundColour as the JSON carries it.
Colours ==
  { [kind |-> "absent", chars |-> <<>>],
    [kind |-> "string", chars |-> <<>>],
    [kind |-> "string", chars |-> HexNoHash],
    [kind |-> "string", chars |-> HexHash],
    [kind |-> "number", chars |-> <<>>] }

\* latestHouseMembership.membershipEndDate as the JSON carries it.
EndDates ==
  { [kind |-> "absent", t |-> 0],
    [kind |-> "empty", t |-> 0],
    [kind |-> "invalid", t |-> 0] }
  \cup { [kind |-> "iso", t |-> n] : n \in Instants }

NoColour == [kind |-> "absent", chars |-> <<>>]
NoEndDate == [kind |-> "absent", t |-> 0]

\* member.latestParty, with `present` FALSE for a record without the field
NoParty == [present |-> FALSE, name |-> Absent, backgroundColour |-> NoColour]
PartyWith(c) == [present |-> TRUE, name |-> "Party", backgroundColour |-> c]

\* member.latestHouseMembership, likewise
NoMembership == [present |-> FALSE, membershipFrom |-> Absent, membershipEndDate |-> NoEndDate]
MembershipWith(e) == [present |-> TRUE, membershipFrom |-> "Seat", membershipEndDate |-> e]

NameOf(id) == IF id = "172" THEN "Member 172" ELSE "Member 4514"
ThumbOf(id) == IF id = "172" THEN "thumb/172" ELSE "thumb/4514"

\* interface Member: a record of the API with party p and membership h
MemberWith(id, p, h) ==
  [nameDisplayAs |-> NameOf(id), thumbnailUrl |-> ThumbOf(id),
   latestParty |-> p, latestHouseMembership |-> h]

\* A `value` with none of the fields.
NoMember ==
  [nameDisplayAs |-> Absent, thumbnailUrl |-> Absent,
   latestParty |-> NoParty, latestHouseMembership |-> NoMembership]

\* The records the API can answer with for `id`: every colour with an
\* ongoing membership, every end date with a coloured party, and the
\* record without any field (no party, no membership, no name).
Members(id) ==
  { MemberWith(id, PartyWith(c), MembershipWith(NoEndDate)) : c \in Colours }
  \cup { MemberWith(id, PartyWith([kind |-> "string", chars |-> HexNoHash]), MembershipWith(e)) :
           e \in EndDates }
  \cup { NoMember }

\* What the body of a 2xx response can be: not JSON, the JSON null, an
\* envelope without `value`, or an envelope { value: Member }.
Bodies(id) ==
  { [kind |-> k, value |-> NoMember] : k \in {"malformed", "null", "noValue"} }
  \cup { [kind |-> "member", value |-> m] : m \in Members(id) }

HttpStatuses == {200, 404}

\* response.ok
ResponseOk(status) == status >= 200 /\ status <= 299

VARIABLES
  variant,        \* which of the two source files is bundled
  cardExists,     \* document.getElementById("mp-card") # null
  children,       \* the children the Card's querySelector calls resolve
  dom,            \* the mutable attributes of the Card and --party-color
  pc,             \* where each invocation stands
  promise,        \* the promise each invocation returned
  memberId,       \* const memberId
  requests,       \* the GET requests each invocation issued (their ids)
  signalAborted,  \* controller.signal.aborted
  outcome,        \* the return point each invocation left through
  console,        \* what each invocation logged
  wrote,          \* the targets each invocation assigned
  response,       \* response.status of each invocation, 0 before it arrives
  lastResponse    \* the body and instant the latest resumed try block worked on

vars == <<variant, cardExists, children, dom, pc, promise, memberId, requests,
          signalAborted, outcome, console, wrote, response, lastResponse>>

page == <<variant, cardExists, children>>

InitialDom ==
  [cardDisplay |-> "", imgSrc |-> "template", partyText |-> "template",
   nameText |-> "template", constituencyText |-> "template",
   statusDisplay |-> "", statusText |-> "template", partyColor |-> <<>>]

ContentFields == {"imgSrc", "partyText", "nameText", "constituencyText",
                  "statusDisplay", "statusText"}

NoResponse == [inv |-> 0, body |-> [kind |-> "none", value |-> NoMember], now |-> 0]

Init ==
  /\ variant \in Variants
  /\ cardExists \in BOOLEAN
  /\ children \in (IF cardExists THEN Templates ELSE {{}})
  /\ dom = InitialDom
  /\ pc = [i \in Invocations |-> "idle"]
  /\ promise = [i \in Invocations |-> "none"]
  /\ memberId = [i \in Invocations |-> NullId]
  /\ requests = [i \in Invocations |-> <<>>]
  /\ signalAborted = [i \in Invocations |-> FALSE]
  /\ outcome = [i \in Invocations |-> "none"]
  /\ console = [i \in Invocations |-> <<>>]
  /\ wrote = [i \in Invocations |-> {}]
  /\ response = [i \in Invocations |-> 0]
  /\ lastResponse = NoResponse

\* ------------------------------------------------- the running function
\* The part of the state a synchronous stretch of an invocation works on.
Frame(i) ==
  [dom |-> dom, wrote |-> wrote[i], console |-> console[i],
   threw |-> NoError, exit |-> "running"]

Live(st) == st.threw = NoError /\ st.exit = "running"

\* element.prop = v
Assign(st, field, v) ==
  [st EXCEPT !.dom = [@ EXCEPT ![field] = v], !.wrote = @ \cup {field}]

\* console.warn / console.error
Log(st, level, msg, id, status, cause) ==
  [st EXCEPT !.console = Append(@, [level |-> level, msg |-> msg, id |-> id,
                                     status |-> status, cause |-> cause])]

Throw(st, err) == [st EXCEPT !.threw = err]
Return(st, how) == [st EXCEPT !.exit = how]

\* One statement after another: F applied to the state st has reached.
Then(st, F(_)) == CHOOSE next \in {F(s) : s \in {st}} : TRUE

\* a ?? b
Coalesce(a, b) == IF a = Absent THEN b ELSE a


\* ------------------------------------------------------- pure functions
\* if (partyColor): the empty string and undefined are falsy.
ColourTruthy(c) == (c.kind = "string" /\ c.chars # <<>>) \/ c.kind = "number"

\* partyColor.startsWith("#")
StartsWithHash(chars) == Len(chars) >= 1 /\ chars[1] = "#"

\* Mutant: the "#" is prepended whatever the colour starts with.
FormatColorAlwaysPrepends(chars) == <<"#">> \o chars

\* partyColor.startsWith("#") ? partyColor : `#${partyColor}`
FormatColor(chars) == IF StartsWithHash(chars) THEN chars ELSE <<"#">> \o chars

\* if (membershipEnd): the empty string and undefined are falsy.
EndDateTruthy(e) == e.kind \in {"invalid", "iso"}

\* new Date(membershipEnd): an unparsable string gives an Invalid Date.
ParseDate(e) == IF e.kind = "iso" THEN e.t ELSE NaN

\* Mutant: the comparison is not strict.
DateGreaterOrEqual(a, b) == a # NaN /\ b # NaN /\ a >= b

\* a > b on two Dates: every comparison with an Invalid Date is false.
DateGreater(a, b) == a # NaN /\ b # NaN /\ a > b

\* membershipEnd ? new Date(membershipEnd) > new Date() : true
IsMembershipActive(e, now) ==
  IF EndDateTruthy(e) THEN DateGreater(ParseDate(e), now) ELSE TRUE

\* member.latestHouseMembership?.membershipEndDate
MembershipEnd(member) == member.latestHouseMembership.membershipEndDate

\* ------------------------------------------------ the rendering stretch
\* await response.json(), then responseData.value
ReadEnvelope(st, body) ==
  IF ~Live(st) THEN st
  ELSE IF body.kind = "malformed" THEN Throw(st, "SyntaxError")
  ELSE IF body.kind = "null" THEN Throw(st, "TypeError")
  ELSE st

\* The party colour block: reading latestParty from a missing `value`
\* throws, and so does startsWith on a colour that is no string.
ApplyPartyColor(st, body) ==
  IF ~Live(st) THEN st
  ELSE IF body.kind = "noValue" THEN Throw(st, "TypeError")
  ELSE LET partyColor == body.value.latestParty.backgroundColour IN
       IF ~ColourTruthy(partyColor) THEN st
       ELSE IF partyColor.kind # "string" THEN Throw(st, "TypeError")
       ELSE Assign(st, "partyColor", FormatColor(partyColor.chars))

\* if (el) el.prop = v
AssignIf(st, child, field, v) ==
  IF Live(st) /\ child \in children THEN Assign(st, field, v) ELSE st

\* The four content writes, in the order of the source.
WriteContent(st, member) ==
  LET Image(s) == AssignIf(s, "image", "imgSrc", Coalesce(member.thumbnailUrl, ""))
      Party(s) == AssignIf(s, "party", "partyText", Coalesce(member.latestParty.name, "N/A"))
      Name(s) == AssignIf(s, "name", "nameText", Coalesce(member.nameDisplayAs, "N/A"))
      Constituency(s) == AssignIf(s, "constituency", "constituencyText",
                                  Coalesce(member.latestHouseMembership.membershipFrom, "N/A"))
  IN Then(Then(Then(Then(st, Image), Party), Name), Constituency)

\* if (status) { status.style.display = ...; status.textContent = ... }
WriteStatus(st, active) ==
  LET Display(s) == AssignIf(s, "status", "statusDisplay", IF active THEN "none" ELSE "block")
      Text(s) == AssignIf(s, "status", "statusText", IF active THEN "" ELSE "No longer serving")
  IN Then(Then(st, Display), Text)

\* card.style.display = "block", the last statement of the try block
ShowCard(st) ==
  IF Live(st) THEN Return(Assign(st, "cardDisplay", "block"), "rendered") ELSE st

\* Mutant: the content is written before the party colour is read.
RenderVisibilityContentFirst(st, body, now) ==
  LET Envelope(s) == ReadEnvelope(s, body)
      Colour(s) == ApplyPartyColor(s, body)
      Content(s) == WriteContent(s, body.value)
      Status(s) == WriteStatus(s, IsMembershipActive(MembershipEnd(body.value), now))
  IN Then(Then(Then(Then(Then(st, Envelope), Content), Colour), Status), ShowCard)

\* The try block after the second await, Card-visibility variant.
RenderVisibility(st, body, now) ==
  LET Envelope(s) == ReadEnvelope(s, body)
      Colour(s) == ApplyPartyColor(s, body)
      Content(s) == WriteContent(s, body.value)
      Status(s) == WriteStatus(s, IsMembershipActive(MembershipEnd(body.value), now))
  IN Then(Then(Then(Then(Then(st, Envelope), Colour), Content), Status), ShowCard)

\* const card = document.getElementById("mp-card"); if (!card) { warn; return }
LookupCard(st) ==
  IF Live(st) /\ ~cardExists
  THEN Return(Log(st, "warn", "Member card element not found", "", 0, ""), "noCard")
  ELSE st

\* The try block of the plain variant runs off its end.
EndOfTry(st) == IF Live(st) THEN Return(st, "rendered") ELSE st

\* Mutant: the party colour is applied before the Card root is looked up.
RenderPlainColourFirst(st, body, now) ==
  LET Envelope(s) == ReadEnvelope(s, body)
      Colour(s) == ApplyPartyColor(s, body)
      Content(s) == WriteContent(s, body.value)
      Status(s) == WriteStatus(s, IsMembershipActive(MembershipEnd(body.value), now))
  IN Then(Then(Then(Then(Then(Then(st, Envelope), Colour), LookupCard), Content), Status),
          EndOfTry)

\* The try block after the second await, plain variant.
RenderPlain(st, body, now) ==
  LET Envelope(s) == ReadEnvelope(s, body)
      Colour(s) == ApplyPartyColor(s, body)
      Content(s) == WriteContent(s, body.value)
      Status(s) == WriteStatus(s, IsMembershipActive(MembershipEnd(body.value), now))
  IN Then(Then(Then(Then(Then(Then(st, Envelope), LookupCard), Colour), Content), Status),
          EndOfTry)

\* The two logging branches shared by both catch handlers.
LogCaught(st, id) ==
  IF st.threw = "AbortError"
  THEN Log(st, "warn", "Fetch request was aborted", "", 0, "")
  ELSE Log(st, "error", "Error fetching data for member ID", id, 0, st.threw)

\* Mutant: the handler logs and leaves the Card as it is.
CatchWithoutHiding(st, id) ==
  IF st.threw = NoError THEN st
  ELSE [LogCaught(st, id) EXCEPT !.threw = NoError, !.exit = "caught"]

\* catch (error) { ... } of the Card-visibility variant
CatchVisibility(st, id) ==
  LET Hide(s) == IF cardExists THEN Assign(s, "cardDisplay", "none") ELSE s
      Warn(s) == [LogCaught(s, id) EXCEPT !.threw = NoError, !.exit = "caught"]
  IN IF st.threw = NoError THEN st ELSE Then(Then(st, Hide), Warn)

\* Mutant: the handler logs and throws the error on.
CatchRethrows(st, id) ==
  IF st.threw = NoError THEN st ELSE LogCaught(st, id)

\* catch (error) { ... } of the plain variant
CatchPlain(st, id) ==
  IF st.threw = NoError THEN st
  ELSE [LogCaught(st, id) EXCEPT !.threw = NoError, !.exit = "caught"]

Catch(st, id) ==
  IF variant = "visibility" THEN CatchVisibility(st, id) ELSE CatchPlain(st, id)

\* -------------------------------------------------------------- actions
\* Mutant: the early exit looks at the id alone.
ExitEarlyIgnoringCard(id) == IdMissing(id)

\* if (!memberId || !card), Card-visibility variant
ExitEarlyVisibility(id) == IdMissing(id) \/ ~cardExists

\* if (!memberId), plain variant
ExitEarlyPlain(id) == IdMissing(id)

\* The body of the early-exit branch, Card-visibility variant.
EarlyExitVisibility(st) ==
  LET hidden == IF cardExists THEN Assign(st, "cardDisplay", "none") ELSE st
  IN Return(Log(hidden, "warn", "No member ID provided or card element not found", "", 0, ""),
            "earlyExit")

\* The body of the early-exit branch, plain variant.
EarlyExitPlain(st) ==
  Return(Log(st, "warn", "No member ID provided in the query parameters", "", 0, ""),
         "earlyExit")

\* The stretch from the call to the first await.
Prologue(st, id) ==
  IF variant = "visibility"
  THEN (IF ExitEarlyVisibility(id) THEN EarlyExitVisibility(st) ELSE st)
  ELSE (IF ExitEarlyPlain(id) THEN EarlyExitPlain(st) ELSE st)

\* fetch(apiUrl, { signal }): the requests this call adds to the invocation's.
IssueRequest(sent, id) == Append(sent, id)

\* Mutant: a new invocation aborts the requests still in flight.
NewControllerAbortsPrior(i) ==
  [j \in Invocations |-> IF j = i THEN FALSE ELSE signalAborted[j] \/ pc[j] = "awaitFetch"]

\* new AbortController(): the signals after invocation i created its own.
NewController(i) == [signalAborted EXCEPT ![i] = FALSE]

\* The rejections fetch can deliver: an AbortError only for an aborted
\* signal, a TypeError for a network failure.
FetchErrors(i) == IF signalAborted[i] THEN {"AbortError"} ELSE {"TypeError"}

\* The state an invocation leaves behind when a stretch ends in a return
\* or in an exception nothing caught.
Settle(i, reached) == \E st \in {reached} :
  /\ dom' = st.dom
  /\ wrote' = [wrote EXCEPT ![i] = st.wrote]
  /\ console' = [console EXCEPT ![i] = st.console]
  /\ pc' = [pc EXCEPT ![i] = "done"]
  /\ outcome' = [outcome EXCEPT ![i] = IF st.threw = NoError THEN st.exit ELSE "threw"]
  /\ promise' = [promise EXCEPT ![i] = IF st.threw = NoError THEN "resolved" ELSE "rejected"]

\* What the page URL can carry when invocation i reads it. The two members
\* are interchangeable, so the first request of a run is the one for "172".
UrlIds(i) ==
  IF \E j \in Invocations : j < i /\ memberId[j] = "172"
  THEN MemberIds ELSE MemberIds \ {"4514"}

\* A caller invokes initMemberComponent(); the page URL carries `id`.
Start(i, id) ==
  /\ pc[i] = "idle"
  /\ \A j \in Invocations : j < i => pc[j] # "idle"
  /\ id \in UrlIds(i)
  /\ memberId' = [memberId EXCEPT ![i] = id]
  /\ LET st == Prologue(Frame(i), id) IN
       IF Live(st)
       THEN /\ requests' = [requests EXCEPT ![i] = IssueRequest(@, id)]
            /\ signalAborted' = NewController(i)
            /\ pc' = [pc EXCEPT ![i] = "awaitFetch"]
            /\ promise' = [promise EXCEPT ![i] = "pending"]
            /\ UNCHANGED <<dom, wrote, console, outcome>>
       ELSE /\ Settle(i, st)
            /\ UNCHANGED <<requests, signalAborted>>
  /\ UNCHANGED <<page, response, lastResponse>>

\* Mutant: the non-2xx branch also blanks the name.
NotOkBranchClearsName(st, status) ==
  LET logged == Log(st, "error", "Fetch failed with status", "", status, "")
  IN Return(Assign(logged, "nameText", ""), "httpError")

\* if (!response.ok) { ... return; }
NotOkBranch(st, status) ==
  LET logged == Log(st, "error", "Fetch failed with status", "", status, "")
      hidden == IF variant = "visibility" THEN Assign(logged, "cardDisplay", "none") ELSE logged
  IN Return(hidden, "httpError")

\* The fetch promise fulfils with a response of some status.
FetchResponds(i, status) ==
  /\ pc[i] = "awaitFetch"
  /\ response' = [response EXCEPT ![i] = status]
  /\ IF ResponseOk(status)
     THEN /\ pc' = [pc EXCEPT ![i] = "awaitJson"]
          /\ UNCHANGED <<dom, wrote, console, outcome, promise>>
     ELSE Settle(i, NotOkBranch(Frame(i), status))
  /\ UNCHANGED <<page, memberId, requests, signalAborted, lastResponse>>

\* const controller: a local of the invocation that is neither returned
\* nor stored nor handed on (fetch gets its signal only), so this is the set
\* of parties outside the suspended invocation that can call abort() on it.
ControllerHolders(i) == {}

\* controller.abort(), called by a holder while the request is in flight.
AbortRequest(i) ==
  /\ pc[i] = "awaitFetch"
  /\ ControllerHolders(i) # {}
  /\ signalAborted' = [signalAborted EXCEPT ![i] = TRUE]
  /\ UNCHANGED <<page, dom, pc, promise, memberId, requests, outcome, console,
                 wrote, response, lastResponse>>

\* The fetch promise rejects.
FetchRejects(i, err) ==
  /\ pc[i] = "awaitFetch"
  /\ err \in FetchErrors(i)
  /\ LET Handler(s) == Catch(s, memberId[i])
     IN Settle(i, Then(Throw(Frame(i), err), Handler))
  /\ UNCHANGED <<page, memberId, requests, signalAborted, response, lastResponse>>

Render(st, body, now) ==
  IF variant = "visibility" THEN RenderVisibility(st, body, now)
  ELSE RenderPlain(st, body, now)

\* response.json() settles and the rest of the try block runs.
JsonSettles(i, body, now) ==
  /\ pc[i] = "awaitJson"
  /\ LET Handler(s) == Catch(s, memberId[i])
     IN Settle(i, Then(Render(Frame(i), body, now), Handler))
  /\ lastResponse' = [inv |-> i, body |-> body, now |-> now]
  /\ UNCHANGED <<page, memberId, requests, signalAborted, response>>

\* new Date() is evaluated only when membershipEnd is truthy and the try
\* block gets that far.
InstantsRead(body) ==
  IF body.kind = "member" /\ EndDateTruthy(MembershipEnd(body.value))
  THEN Instants ELSE {0}

Next ==
  \/ \E i \in Invocations, id \in MemberIds : Start(i, id)
  \/ \E i \in Invocations, status \in HttpStatuses : FetchResponds(i, status)
  \/ \E i \in Invocations, err \in {"AbortError", "TypeError"} : FetchRejects(i, err)
  \/ \E i \in Invocations : \E body \in Bodies(memberId[i]) : \E now \in InstantsRead(body) :
       JsonSettles(i, body, now)

Spec == Init /\ [][Next]_vars

\* The event loop resumes an invocation once the promise it awaits has
\* settled, one way or the other.
FetchSettles(i) ==
  \/ \E status \in HttpStatuses : FetchResponds(i, status)
  \/ \E err \in {"AbortError", "TypeError"} : FetchRejects(i, err)

BodySettles(i) ==
  \E body \in Bodies(memberId[i]) : \E now \in InstantsRead(body) : JsonSettles(i, body, now)

\* --------------------------------------------------------------- claims
IdPresent(i) == ~IdMissing(memberId[i])
Started(i) == pc[i] # "idle"
Completes(i) == pc[i] # "done" /\ pc'[i] = "done"
ContentOf(d) == [f \in ContentFields \cup {"partyColor"} |-> d[f]]
Logged(i, level, msg) ==
  \E k \in 1..Len(console[i]) : console[i][k].level = level /\ console[i][k].msg = msg

\* C1 as claimed: an invocation issues a request if and only if the id is
\* present and non-empty, whether or not the Card root exists, and then
\* exactly one.
C1_RequestIffId ==
  \A i \in Invocations :
    Started(i) => Len(requests[i]) = (IF IdPresent(i) THEN 1 ELSE 0)

\* C1 as amended: an invocation issues exactly one request, for its own id,
\* if and only if the id is present and non-empty and, in the
\* Card-visibility variant, the Card root exists; otherwise it issues none.
C1_RequestIffIdAndCard ==
  \A i \in Invocations :
    /\ ~Started(i) => requests[i] = <<>>
    /\ Started(i) =>
         requests[i] = (IF IdPresent(i) /\ (variant = "plain" \/ cardExists)
                        THEN <<memberId[i]>> ELSE <<>>)

C1_Witness ==
  \E i \in Invocations :
    /\ variant = "visibility" /\ ~cardExists
    /\ pc[i] = "done" /\ IdPresent(i) /\ requests[i] = <<>>

\* C2: content fields and --party-color are assigned only by an invocation
\* whose id is present and whose response had a success status and whose
\* try block ran to its end; the step that takes the missing-id exit or the
\* non-2xx exit leaves all of them as they were, and the non-2xx exit logs
\* the failure with the status.
C2_WritesOnlyOnSuccess ==
  /\ [](\A i \in Invocations :
          /\ wrote[i] \cap (ContentFields \cup {"partyColor"}) # {} =>
               IdPresent(i) /\ ResponseOk(response[i]) /\ outcome[i] = "rendered"
          /\ outcome[i] = "httpError" =>
               /\ ~ResponseOk(response[i])
               /\ \E k \in 1..Len(console[i]) :
                    console[i][k].level = "error" /\ console[i][k].status = response[i])
  /\ [][\A i \in Invocations :
          (Completes(i) /\ (IdMissing(memberId'[i]) \/ ~ResponseOk(response'[i])))
             => ContentOf(dom') = ContentOf(dom)]_vars

C2_Witness ==
  \E i, j \in Invocations :
    /\ outcome[j] = "rendered" /\ outcome[i] = "httpError" /\ lastResponse.inv = j
    /\ dom.nameText = NameOf(memberId[j])
    /\ "partyColor" \in wrote[j]

\* C3: in the Card-visibility variant with the Card root present, the step
\* that completes an invocation leaves the Card displayed "block" exactly
\* when the invocation rendered (id present, success status, no exception)
\* and "none" on every other path.
C3_CardVisibleIffRendered ==
  [][(variant = "visibility" /\ cardExists) =>
       \A i \in Invocations :
         Completes(i) =>
           /\ dom'.cardDisplay = (IF outcome'[i] = "rendered" THEN "block" ELSE "none")
           /\ outcome'[i] = "rendered" <=>
                /\ IdPresent(i)' /\ ResponseOk(response'[i])
                /\ lastResponse'.inv = i
                /\ lastResponse'.body.kind = "member"
                /\ lastResponse'.body.value.latestParty.backgroundColour.kind # "number"]_vars

C3_Witness ==
  \E i, j \in Invocations :
    /\ variant = "visibility" /\ cardExists
    /\ outcome[j] = "rendered" /\ outcome[i] = "caught"
    /\ lastResponse.inv = i /\ lastResponse.body.kind = "malformed"
    /\ dom.cardDisplay = "none"

\* The position of an invocation in its run: it only ever moves forward.
Rank(p) == CASE p = "idle" -> 0 [] p = "awaitFetch" -> 1 [] p = "awaitJson" -> 2 [] p = "done" -> 3

Rendered == lastResponse.inv # 0 /\ outcome[lastResponse.inv] = "rendered"
RenderedEnd == MembershipEnd(lastResponse.body.value)
StatusHidden == dom.statusDisplay = "none" /\ dom.statusText = ""
StatusShown == dom.statusDisplay = "block" /\ dom.statusText = "No longer serving"

\* C5 as claimed: after a rendering with the status label present, the
\* label is hidden and empty iff membershipEndDate is absent or strictly
\* later than the current instant, and shown with "No longer serving"
\* otherwise.
C5_ActiveIffAbsentOrLater ==
  (Rendered /\ "status" \in children) =>
     IF RenderedEnd.kind = "absent"
        \/ (RenderedEnd.kind = "iso" /\ RenderedEnd.t > lastResponse.now)
     THEN StatusHidden ELSE StatusShown

\* C5 as amended: the label is hidden and empty iff membershipEndDate is
\* falsy (absent or the empty string) or parses to an instant strictly
\* later than the current instant; otherwise (an instant equal to or before
\* the current one, or an unparsable date) it is shown with "No longer
\* serving". The label is always in one of the two pairs.
C5_ActiveIffFalsyOrLater ==
  (Rendered /\ "status" \in children) =>
     /\ StatusHidden \/ StatusShown
     /\ StatusHidden <=>
          \/ RenderedEnd.kind \in {"absent", "empty"}
          \/ (RenderedEnd.kind = "iso" /\ RenderedEnd.t > lastResponse.now)

C5_Witness ==
  /\ Rendered /\ "status" \in children
  /\ RenderedEnd.kind = "iso" /\ RenderedEnd.t = lastResponse.now
  /\ StatusShown

RenderedColour == lastResponse.body.value.latestParty.backgroundColour

\* C6 as claimed: a rendering whose response carries a backgroundColour
\* writes it to --party-color, with "#" prepended iff it did not start with
\* one; a rendering without latestParty or without colour does not write.
C6_WrittenIffPresent ==
  Rendered =>
    IF RenderedColour.kind # "absent"
    THEN /\ "partyColor" \in wrote[lastResponse.inv]
         /\ dom.partyColor \in {RenderedColour.chars, <<"#">> \o RenderedColour.chars}
         /\ dom.partyColor[1] = "#"
    ELSE "partyColor" \notin wrote[lastResponse.inv]

\* C6 as amended: a rendering whose response carries a non-empty string
\* backgroundColour writes it to --party-color unchanged when it starts
\* with "#" and with "#" prepended when it does not, so the value written
\* starts with "#" and formatting it again changes nothing; a rendering
\* whose response has no latestParty, no colour or the empty string as
\* colour does not write --party-color, and the step leaves it as it was.
C6_WrittenIffNonEmpty ==
  /\ [](Rendered =>
          IF RenderedColour.kind = "string" /\ RenderedColour.chars # <<>>
          THEN /\ "partyColor" \in wrote[lastResponse.inv]
               /\ dom.partyColor[1] = "#"
               /\ dom.partyColor = (IF RenderedColour.chars[1] = "#"
                                    THEN RenderedColour.chars
                                    ELSE <<"#">> \o RenderedColour.chars)
               /\ FormatColor(dom.partyColor) = dom.partyColor
          ELSE /\ "partyColor" \notin wrote[lastResponse.inv]
               /\ RenderedColour.kind = "absent" \/ RenderedColour.chars = <<>>)
  /\ [][(Rendered' /\ lastResponse' # lastResponse
           /\ ~(RenderedColour'.kind = "string" /\ RenderedColour'.chars # <<>>))
          => dom'.partyColor = dom.partyColor]_vars

C6_Witness ==
  \E i, j \in Invocations :
    /\ outcome[i] = "rendered" /\ outcome[j] = "rendered" /\ lastResponse.inv = j
    /\ i # j /\ "partyColor" \in wrote[i]
    /\ RenderedColour.kind = "string" /\ RenderedColour.chars = <<>>
    /\ dom.partyColor = HexHash

\* C7 as claimed: the request of an invocation can be cancelled through
\* the invocation's token, so that the aborted outcome is reachable: while
\* the request is in flight, an abort through the token is possible.
C7_Cancellable ==
  \A i \in Invocations : pc[i] = "awaitFetch" => ENABLED AbortRequest(i)

RenderedBody == lastResponse.body
ColourIsNonEmptyString(c) == c.kind = "string" /\ c.chars # <<>>

\* C8 as claimed: --party-color is written before the Card root is looked
\* up, so a successful response with a backgroundColour and no Card root
\* sets --party-color to the formatted colour, logs the warning and writes
\* nothing else.
C8_ColourBeforeCardLookup ==
  \A i \in Invocations :
    (/\ ~cardExists /\ lastResponse.inv = i /\ pc[i] = "done"
     /\ RenderedBody.kind = "member" /\ ColourIsNonEmptyString(RenderedColour))
    => /\ dom.partyColor = FormatColor(RenderedColour.chars)
       /\ wrote[i] = {"partyColor"}
       /\ Logged(i, "warn", "Member card element not found")

\* C8 as amended: the Card root is looked up before --party-color is
\* written. With the Card root absent no invocation writes anything,
\* --party-color included: the plain variant, given a body that parses,
\* logs the "not found" warning and returns, and the Card-visibility
\* variant issues no request at all.
C8_CardLookupBeforeColour ==
  ~cardExists =>
    /\ dom = InitialDom
    /\ \A i \in Invocations :
         /\ wrote[i] = {}
         /\ variant = "visibility" => requests[i] = <<>> /\ lastResponse.inv = 0
         /\ (variant = "plain" /\ lastResponse.inv = i
               /\ RenderedBody.kind \in {"member", "noValue"})
            => /\ outcome[i] = "noCard"
               /\ console[i] = <<[level |-> "warn", msg |-> "Member card element not found",
                                  id |-> "", status |-> 0, cause |-> ""]>>

C8_Witness ==
  \E i \in Invocations :
    /\ variant = "plain" /\ ~cardExists
    /\ lastResponse.inv = i /\ outcome[i] = "noCard"
    /\ RenderedColour.kind = "string" /\ RenderedColour.chars = HexNoHash
    /\ dom.partyColor = <<>>

\* C9: no invocation's signal is ever aborted, and an invocation that
\* starts leaves every request in flight as it is; each response is
\* rendered when it arrives, so the Card shows the name of the response
\* that arrived last, whichever invocation asked for it.
C9_NoCancellationOfPrior ==
  /\ [](\A i \in Invocations : ~signalAborted[i])
  /\ [](Rendered /\ "name" \in children =>
          dom.nameText = Coalesce(RenderedBody.value.nameDisplayAs, "N/A"))
  /\ [][\A i, j \in Invocations :
          (i # j /\ pc[i] = "awaitFetch" /\ pc[j] = "idle" /\ pc'[j] # "idle")
          => /\ pc'[i] = "awaitFetch"
             /\ requests'[i] = requests[i]
             /\ FetchErrors(i)' = {"TypeError"}]_vars

\* Invocation 1 started first, both rendered, and the Card shows the
\* member invocation 1 asked for.
C9_Witness ==
  /\ outcome[1] = "rendered" /\ outcome[2] = "rendered"
  /\ memberId[1] # memberId[2]
  /\ lastResponse.inv = 1
  /\ "name" \in children
  /\ dom.nameText = NameOf(memberId[1])

\* The fields the children of the Card carry.
FieldsOf(ch) ==
  (IF "image" \in ch THEN {"imgSrc"} ELSE {})
  \cup (IF "party" \in ch THEN {"partyText"} ELSE {})
  \cup (IF "name" \in ch THEN {"nameText"} ELSE {})
  \cup (IF "constituency" \in ch THEN {"constituencyText"} ELSE {})
  \cup (IF "status" \in ch THEN {"statusDisplay", "statusText"} ELSE {})

\* C10: an invocation that went through the catch handler has assigned
\* nothing but, in the Card-visibility variant, the Card's display; every
\* invocation has assigned either none of the content fields or all those
\* of the children the Card has; and after a rendering every field of an
\* existing child holds the value of that one response.
C10_AllOrNothing ==
  /\ \A i \in Invocations :
       /\ outcome[i] = "caught" =>
            wrote[i] = (IF variant = "visibility" THEN {"cardDisplay"} ELSE {})
       /\ wrote[i] \cap ContentFields \in {{}, FieldsOf(children)}
       /\ "partyColor" \in wrote[i] => outcome[i] = "rendered"
  /\ (Rendered /\ children = Children) =>
       /\ dom.imgSrc = Coalesce(RenderedBody.value.thumbnailUrl, "")
       /\ dom.partyText = Coalesce(RenderedBody.value.latestParty.name, "N/A")
       /\ dom.nameText = Coalesce(RenderedBody.value.nameDisplayAs, "N/A")
       /\ dom.constituencyText =
            Coalesce(RenderedBody.value.latestHouseMembership.membershipFrom, "N/A")
       /\ StatusHidden \/ StatusShown

C10_Witness ==
  \E i, j \in Invocations :
    /\ variant = "visibility" /\ children = Children
    /\ outcome[j] = "rendered" /\ outcome[i] = "caught"
    /\ lastResponse.inv = i
    /\ RenderedBody.kind = "member" /\ RenderedColour.kind = "number"
    /\ wrote[i] = {"cardDisplay"}
    /\ dom.nameText = NameOf(memberId[j]) /\ dom.cardDisplay = "none"

====
